---- MODULE Spec2Model ----
(***************************************************************************)
(* A model of src/schemaValidator.ts: validateSchema(data, schema) and the *)
(* five validators it dispatches to.  Data values are tagged records; the  *)
(* schema is a JavaScript object graph, kept as a heap of nodes that refer *)
(* to one another by index, so that shared and cyclic schemas exist.       *)
(***************************************************************************)
EXTENDS Integers, Sequences, FiniteSets, TLC

VARIABLES data, heap, pc, stack, calls, result

vars == <<data, heap, pc, stack, calls, result>>

(***************************************************************************)
(* Bounds of the model.                                                    *)
(***************************************************************************)
\* the largest number of nodes (primitives, arrays, objects) in a data value
MaxSize == 3
\* the longest enum list of a String schema
MaxEnum == 2

(***************************************************************************)
(* Data values.                                                            *)
(***************************************************************************)
Str(s) == [t |-> "string", s |-> s]
Num(n) == [t |-> "number", n |-> n]
Bool(b) == [t |-> "boolean", b |-> b]
\* a plain object: its own keys in enumeration order, and their values
Obj(ks, vs) == [t |-> "object", keys |-> ks, vals |-> vs]
Arr(vs) == [t |-> "array", keys |-> <<>>, vals |-> vs]

Atoms == {Str("red"), Num(5), Bool(TRUE)}

\* "constructor" is a name every plain object inherits from Object.prototype
Keys == {"a", "b", "constructor"}

KeySeqs(n) == {ks \in [1..n -> Keys] : \A i, j \in 1..n : ks[i] = ks[j] => i = j}

RECURSIVE ValuesOfSize(_)
RECURSIVE ValueSeqs(_)
\* the sequences of values whose sizes add up to m
ValueSeqs(m) ==
    IF m = 0 THEN {<<>>}
    ELSE UNION {{<<v>> \o rest : v \in ValuesOfSize(k), rest \in ValueSeqs(m - k)} :
                k \in 1..m}

ValuesOfSize(n) ==
    (IF n = 1 THEN Atoms ELSE {})
    \cup {Arr(vs) : vs \in ValueSeqs(n - 1)}
    \cup UNION {{Obj(ks, vs) : ks \in KeySeqs(Len(vs))} : vs \in ValueSeqs(n - 1)}

Values == UNION {ValuesOfSize(n) : n \in 1..MaxSize}

(***************************************************************************)
(* Schema nodes.  An optional field is <<>> when absent and <<x>> when     *)
(* present; properties is the list of a node's own entries, each naming    *)
(* the heap index of the sub-schema; items is a heap index.                *)
(***************************************************************************)
StringSchema(e) ==
    [type |-> "string", enum |-> e, properties |-> <<>>, required |-> <<>>, items |-> 0]
NumberSchema ==
    [type |-> "number", enum |-> <<>>, properties |-> <<>>, required |-> <<>>, items |-> 0]
BooleanSchema ==
    [type |-> "boolean", enum |-> <<>>, properties |-> <<>>, required |-> <<>>, items |-> 0]
ObjectSchema(props, req) ==
    [type |-> "object", enum |-> <<>>, properties |-> props, required |-> req, items |-> 0]
ArraySchema(i) ==
    [type |-> "array", enum |-> <<>>, properties |-> <<>>, required |-> <<>>, items |-> i]

\* what props[key] yields for a name props only inherits: an object that is
\* no schema node (its type is undefined)
InheritedMember ==
    [type |-> "undefined", enum |-> <<>>, properties |-> <<>>, required |-> <<>>, items |-> 0]

ObjectPrototypeNames == {"constructor"}

\* one entry of a properties object
Prop(k, i) == [key |-> k, node |-> i]

EnumStrings == {"red", "green"}

\* the enum fields drawn: absent, or a list of strings
EnumOptions ==
    {<<>>} \cup {<<e>> : e \in UNION {[1..n -> EnumStrings] : n \in 0..MaxEnum}}

PrimitiveSchemas == {StringSchema(e) : e \in EnumOptions} \cup {NumberSchema, BooleanSchema}

\* the properties objects drawn for the root: over the names a and b, referring
\* to the root itself (a cycle) or to the inner nodes
PropMaps ==
    {<<>>} \cup {<<Prop("a", j)>> : j \in 1..3}
    \cup {<<Prop("a", j), Prop("b", k)>> : j, k \in 2..3}

\* the required fields drawn: absent, empty, or names of which some may be
\* missing from properties
RequiredOptions ==
    {<<>>, << <<>> >>, << <<"a">> >>, << <<"a", "b">> >>, << <<"constructor">> >>}

ContainerSchemas ==
    {ArraySchema(j) : j \in 1..3}
    \cup {ObjectSchema(p, r) : p \in PropMaps, r \in RequiredOptions}

\* the inner nodes 2 and 3 drawn: an object with a required number, an object
\* with an optional enumerated string, or an array whose items are the root again
InnerNodes ==
    {<<ObjectSchema(<<Prop("a", 3)>>, << <<"a">> >>), NumberSchema>>,
     <<ObjectSchema(<<Prop("b", 3)>>, <<>>), StringSchema(<< <<"green">> >>)>>,
     <<ArraySchema(1), StringSchema(<<>>)>>}

\* the schema graphs drawn; node 1 is the schema passed to validateSchema
SchemaHeaps ==
    {<<r, NumberSchema, NumberSchema>> : r \in PrimitiveSchemas}
    \cup {<<r>> \o inner : r \in ContainerSchemas, inner \in InnerNodes}

\* references: a heap index is a schema node, Undefined is JavaScript's
\* undefined, Inherited is a member found on Object.prototype
Undefined == 0
Inherited == 0 - 1
Node(h, ref) == IF ref \in DOMAIN h THEN h[ref] ELSE InheritedMember

(***************************************************************************)
(* JavaScript primitives the validators use.                               *)
(***************************************************************************)
\* typeof data: an array is an "object" too
TypeOf(d) == IF d.t = "array" THEN "object" ELSE d.t

\* a slip that would take typeof for the array test, as objValidator does
IsArrayByTypeof(d) == TypeOf(d) = "object"

\* Array.isArray(data)
IsArray(d) == d.t = "array"

\* the property name of array index i (0-based), as Object.keys spells it
IndexKey(i) == ToString(i)

\* a slip that would leave the loop after its first key
ObjectKeysFirstOnly(d) ==
    LET ks == IF d.t = "array" THEN [i \in 1..Len(d.vals) |-> IndexKey(i - 1)] ELSE d.keys
    IN IF Len(ks) > 1 THEN <<ks[1]>> ELSE ks

\* Object.keys(data): an object's own keys, an array's indices as strings
ObjectKeys(d) ==
    IF d.t = "array" THEN [i \in 1..Len(d.vals) |-> IndexKey(i - 1)] ELSE d.keys

\* data[key], for a key Object.keys(data) returned
DataGet(d, key) ==
    LET ks == ObjectKeys(d)
    IN d.vals[CHOOSE i \in 1..Len(ks) : ks[i] = key]

\* a slip that would compare with the first element only
IncludesFirst(arr, v) == Len(arr) > 0 /\ arr[1] = v

\* arr.includes(v)
Includes(arr, v) == \E i \in 1..Len(arr) : arr[i] = v

\* a slip that would write some for every
IsInSome(arr, target) == \E i \in 1..Len(target) : Includes(arr, target[i])

\* isInEvery(arr, target): target.every(v => arr.includes(v))
IsInEvery(arr, target) == \A i \in 1..Len(target) : Includes(arr, target[i])

\* props[key]: an own entry, else what the prototype chain holds, else undefined
PropsGet(props, key) ==
    IF \E i \in 1..Len(props) : props[i].key = key
    THEN props[CHOOSE i \in 1..Len(props) : props[i].key = key].node
    ELSE IF key \in ObjectPrototypeNames THEN Inherited ELSE Undefined

(***************************************************************************)
(* The outcome of a call: err is "ok" or the kind of the Error thrown, at  *)
(* the path of the call that threw, visited the paths of the validate      *)
(* calls made (in call order).                                             *)
(***************************************************************************)
OK == "ok"
TypeMismatch == "TypeMismatch"
EnumViolation == "EnumViolation"
MissingRequiredField == "MissingRequiredField"
UnknownProperty == "UnknownProperty"
Errors == {TypeMismatch, EnumViolation, MissingRequiredField, UnknownProperty}

Return(path) == [err |-> OK, at |-> <<>>, visited |-> <<path>>]
Throw(e, path) == [err |-> e, at |-> path, visited |-> <<path>>]

\* a call at path whose loop over its children ended as r
Enclose(path, r) ==
    [err |-> r.err, at |-> r.at, visited |-> <<path>> \o r.visited]

\* the loop's outcome so far (r, no error) followed by the rest of the loop
Then(r, rest) ==
    [err |-> rest.err, at |-> rest.at, visited |-> r.visited \o rest.visited]

NoCalls == [err |-> OK, at |-> <<>>, visited |-> <<>>]

RECURSIVE SchemaServiceValidate(_, _, _, _)
RECURSIVE ObjForEach(_, _, _, _, _, _)
RECURSIVE ArrForEach(_, _, _, _, _)

\* dataKeys.forEach(key => ...), from the i-th key on
ObjForEach(h, d, props, dataKeys, i, path) ==
    IF i > Len(dataKeys) THEN NoCalls
    ELSE LET key == dataKeys[i]
             schemaType == PropsGet(props, key)
         IN IF schemaType # Undefined
            THEN LET r == SchemaServiceValidate(h, DataGet(d, key), schemaType,
                                                Append(path, key))
                 IN IF r.err # OK THEN r
                    ELSE Then(r, ObjForEach(h, d, props, dataKeys, i + 1, path))
            ELSE [err |-> UnknownProperty, at |-> path, visited |-> <<>>]

\* objValidator.validate
ObjValidate(h, d, ref, path) ==
    LET schema == Node(h, ref)
    IN IF TypeOf(d) # "object" \/ schema.type # "object" THEN Throw(TypeMismatch, path)
       ELSE LET props == schema.properties
                requiredProps == schema.required
                dataKeys == ObjectKeys(d)
            IN IF /\ requiredProps # <<>>
                  /\ Len(requiredProps[1]) # 0
                  /\ ~IsInEvery(dataKeys, requiredProps[1])
               THEN Throw(MissingRequiredField, path)
               ELSE Enclose(path, ObjForEach(h, d, props, dataKeys, 1, path))

\* data.forEach(datum => ...), from the i-th element on
ArrForEach(h, d, items, i, path) ==
    IF i > Len(d.vals) THEN NoCalls
    ELSE LET r == SchemaServiceValidate(h, d.vals[i], items, Append(path, IndexKey(i - 1)))
         IN IF r.err # OK THEN r
            ELSE Then(r, ArrForEach(h, d, items, i + 1, path))

\* arrayValidator.validate
ArrValidate(h, d, ref, path) ==
    LET schema == Node(h, ref)
    IN IF ~IsArray(d) \/ schema.type # "array" THEN Throw(TypeMismatch, path)
       ELSE Enclose(path, ArrForEach(h, d, schema.items, 1, path))

\* stringValidator.validate
StringValidate(h, d, ref, path) ==
    LET schema == Node(h, ref)
    IN IF TypeOf(d) # "string" \/ schema.type # "string" \/ TypeOf(d) # schema.type
       THEN Throw(TypeMismatch, path)
       ELSE IF schema.enum # <<>> /\ ~Includes(schema.enum[1], d.s)
            THEN Throw(EnumViolation, path)
            ELSE Return(path)

\* booleanValidator.validate
BooleanValidate(h, d, ref, path) ==
    LET schema == Node(h, ref)
    IN IF TypeOf(d) # "boolean" \/ TypeOf(d) # schema.type
       THEN Throw(TypeMismatch, path)
       ELSE Return(path)

\* numberValidator.validate
NumberValidate(h, d, ref, path) ==
    LET schema == Node(h, ref)
    IN IF TypeOf(d) # "number" \/ TypeOf(d) # schema.type
       THEN Throw(TypeMismatch, path)
       ELSE Return(path)

\* a slip that would swap the boolean and number cases of the switch
GetSchemaInstanceSwapped(h, ref) ==
    LET type == Node(h, ref).type
    IN CASE type = "array" -> "arrayValidator"
         [] type = "boolean" -> "numberValidator"
         [] type = "number" -> "booleanValidator"
         [] type = "string" -> "stringValidator"
         [] OTHER -> "objValidator"

\* SchemaFactory.getSchemaInstance: the validator the schema's type selects
GetSchemaInstance(h, ref) ==
    LET type == Node(h, ref).type
    IN CASE type = "array" -> "arrayValidator"
         [] type = "boolean" -> "booleanValidator"
         [] type = "number" -> "numberValidator"
         [] type = "string" -> "stringValidator"
         [] OTHER -> "objValidator"

\* SchemaService.validate
SchemaServiceValidate(h, d, ref, path) ==
    LET v == GetSchemaInstance(h, ref)
    IN CASE v = "arrayValidator" -> ArrValidate(h, d, ref, path)
         [] v = "booleanValidator" -> BooleanValidate(h, d, ref, path)
         [] v = "numberValidator" -> NumberValidate(h, d, ref, path)
         [] v = "stringValidator" -> StringValidate(h, d, ref, path)
         [] OTHER -> ObjValidate(h, d, ref, path)

(***************************************************************************)
(* The program, call by call.  stack holds the validate calls in progress, *)
(* innermost last: the data and schema of the call, its path from the root *)
(* and the position i of its forEach loop (0 before the loop).  calls      *)
(* lists the paths of the calls made.  An Error thrown is not caught       *)
(* anywhere: it leaves the calls in progress one by one.                   *)
(***************************************************************************)
Frame(d, ref, path) == [d |-> d, ref |-> ref, path |-> path, i |-> 0]

Top == stack[Len(stack)]

Pending == [err |-> "pending", at |-> <<>>]

Init ==
    /\ data \in Values
    /\ heap \in SchemaHeaps
    /\ pc = "start"
    /\ stack = <<>>
    /\ calls = <<>>
    /\ result = Pending

\* new SchemaService().validate(d, ref), called from the innermost call
Call(d, ref, path) ==
    /\ stack' = Append(stack, Frame(d, ref, path))
    /\ calls' = Append(calls, path)
    /\ UNCHANGED <<pc, result>>

\* the innermost call returns normally; its caller's loop moves on
ReturnNormally ==
    /\ stack' = IF Len(stack) = 1 THEN <<>>
                ELSE [SubSeq(stack, 1, Len(stack) - 1) EXCEPT ![Len(stack) - 1].i = @ + 1]
    /\ pc' = IF Len(stack) = 1 THEN "done" ELSE pc
    /\ result' = IF Len(stack) = 1 THEN [err |-> OK, at |-> <<>>] ELSE result
    /\ UNCHANGED calls

\* throw new Error(...) in the innermost call
ThrowError(e) ==
    /\ result' = [err |-> e, at |-> Top.path]
    /\ pc' = "throwing"
    /\ UNCHANGED <<stack, calls>>

Running(validator) ==
    /\ pc = "running"
    /\ stack # <<>>
    /\ GetSchemaInstance(heap, Top.ref) = validator

\* validateSchema(data, schema), schema being node 1 of the heap
ValidateSchema ==
    /\ pc = "start"
    /\ pc' = "running"
    /\ stack' = <<Frame(data, 1, <<>>)>>
    /\ calls' = << <<>> >>
    /\ UNCHANGED <<data, heap, result>>

\* objValidator.validate up to its loop: the type and required checks
ObjValidatorCheck ==
    /\ Running("objValidator")
    /\ Top.i = 0
    /\ LET schema == Node(heap, Top.ref)
       IN IF TypeOf(Top.d) # "object" \/ schema.type # "object"
          THEN ThrowError(TypeMismatch)
          ELSE IF /\ schema.required # <<>>
                  /\ Len(schema.required[1]) # 0
                  /\ ~IsInEvery(ObjectKeys(Top.d), schema.required[1])
               THEN ThrowError(MissingRequiredField)
               ELSE /\ stack' = [stack EXCEPT ![Len(stack)].i = 1]
                    /\ UNCHANGED <<pc, result, calls>>
    /\ UNCHANGED <<data, heap>>

\* one turn of objValidator's dataKeys.forEach, or the return after the last
ObjValidatorForEach ==
    /\ Running("objValidator")
    /\ Top.i > 0
    /\ LET dataKeys == ObjectKeys(Top.d)
       IN IF Top.i > Len(dataKeys) THEN ReturnNormally
          ELSE LET key == dataKeys[Top.i]
                   schemaType == PropsGet(Node(heap, Top.ref).properties, key)
               IN IF schemaType # Undefined
                  THEN Call(DataGet(Top.d, key), schemaType, Append(Top.path, key))
                  ELSE ThrowError(UnknownProperty)
    /\ UNCHANGED <<data, heap>>

\* arrayValidator.validate up to its loop: the type check
ArrayValidatorCheck ==
    /\ Running("arrayValidator")
    /\ Top.i = 0
    /\ IF ~IsArray(Top.d) \/ Node(heap, Top.ref).type # "array"
       THEN ThrowError(TypeMismatch)
       ELSE /\ stack' = [stack EXCEPT ![Len(stack)].i = 1]
            /\ UNCHANGED <<pc, result, calls>>
    /\ UNCHANGED <<data, heap>>

\* one turn of arrayValidator's data.forEach, or the return after the last
ArrayValidatorForEach ==
    /\ Running("arrayValidator")
    /\ Top.i > 0
    /\ IF Top.i > Len(Top.d.vals) THEN ReturnNormally
       ELSE Call(Top.d.vals[Top.i], Node(heap, Top.ref).items,
                 Append(Top.path, IndexKey(Top.i - 1)))
    /\ UNCHANGED <<data, heap>>

\* stringValidator.validate
StringValidator ==
    /\ Running("stringValidator")
    /\ LET schema == Node(heap, Top.ref)
       IN IF TypeOf(Top.d) # "string" \/ schema.type # "string"
             \/ TypeOf(Top.d) # schema.type
          THEN ThrowError(TypeMismatch)
          ELSE IF schema.enum # <<>> /\ ~Includes(schema.enum[1], Top.d.s)
               THEN ThrowError(EnumViolation)
               ELSE ReturnNormally
    /\ UNCHANGED <<data, heap>>

\* booleanValidator.validate
BooleanValidator ==
    /\ Running("booleanValidator")
    /\ IF TypeOf(Top.d) # "boolean" \/ TypeOf(Top.d) # Node(heap, Top.ref).type
       THEN ThrowError(TypeMismatch)
       ELSE ReturnNormally
    /\ UNCHANGED <<data, heap>>

\* numberValidator.validate
NumberValidator ==
    /\ Running("numberValidator")
    /\ IF TypeOf(Top.d) # "number" \/ TypeOf(Top.d) # Node(heap, Top.ref).type
       THEN ThrowError(TypeMismatch)
       ELSE ReturnNormally
    /\ UNCHANGED <<data, heap>>

\* a slip that would catch the Error in the caller's loop and go on
PropagateCaught ==
    /\ pc = "throwing"
    /\ IF Len(stack) <= 1
       THEN pc' = "done" /\ stack' = <<>> /\ UNCHANGED result
       ELSE /\ stack' = [SubSeq(stack, 1, Len(stack) - 1)
                            EXCEPT ![Len(stack) - 1].i = @ + 1]
            /\ pc' = "running"
            /\ result' = Pending
    /\ UNCHANGED <<data, heap, calls>>

\* the Error leaves the innermost call: no call in progress has a handler
\* (try/catch) for it, and past the outermost it reaches the caller
Propagate ==
    /\ pc = "throwing"
    /\ IF stack = <<>>
       THEN pc' = "done" /\ UNCHANGED stack
       ELSE stack' = SubSeq(stack, 1, Len(stack) - 1) /\ UNCHANGED pc
    /\ UNCHANGED <<data, heap, calls, result>>

Next ==
    \/ ValidateSchema
    \/ ObjValidatorCheck
    \/ ObjValidatorForEach
    \/ ArrayValidatorCheck
    \/ ArrayValidatorForEach
    \/ StringValidator
    \/ BooleanValidator
    \/ NumberValidator
    \/ Propagate

Spec == Init /\ [][Next]_vars

\* every step that can be taken is taken
FairSpec == Spec /\ WF_vars(Next)

\* what validateSchema(data, schema) computes, as a function of its arguments
Outcome(h, d) == SchemaServiceValidate(h, d, 1, <<>>)

(***************************************************************************)
(* Vocabulary of the properties.                                           *)
(***************************************************************************)
Done == pc = "done"

\* the schema passed to validateSchema
Root == heap[1]

Range(seq) == {seq[i] : i \in 1..Len(seq)}

\* the names a properties object has entries for
OwnNames(props) == {props[i].key : i \in 1..Len(props)}

\* the orders in which the entries of a sequence of n can be enumerated
Orders(n) == {f \in [1..n -> 1..n] : \A i, j \in 1..n : f[i] = f[j] => i = j}

Reorder(seq, f) == [i \in 1..Len(seq) |-> seq[f[i]]]

\* the same mapping with its keys enumerated in another order
Reordered(d, f) == Obj(Reorder(d.keys, f), Reorder(d.vals, f))

\* the steps of the program and the function it computes agree
StepsComputeOutcome ==
    /\ result.err \in Errors \cup {OK, "pending"}
    /\ Done =>
        /\ result.err = Outcome(heap, data).err
        /\ result.at = Outcome(heap, data).at
        /\ calls = Outcome(heap, data).visited

(***************************************************************************)
(* C1.  A value that is not a key-value mapping (a string, a number, a     *)
(* boolean, an array, the empty array included) fails every Object schema  *)
(* with TypeMismatch.                                                      *)
(***************************************************************************)
C1_NonMappingFailsObject ==
    (Done /\ Root.type = "object" /\ data.t # "object") => result.err = TypeMismatch

(***************************************************************************)
(* C2.  A mapping m validates against an Object schema S exactly when (a)  *)
(* every required name is a key of m, (b) every key of m is a key of       *)
(* S.properties and (c) every value m[k] validates against                 *)
(* S.properties[k]; and when only (b) fails, the failure is                *)
(* UnknownProperty.                                                        *)
(***************************************************************************)
C2_RequiredPresent ==
    Root.required # <<>> => Range(Root.required[1]) \subseteq Range(data.keys)

C2_Closed == Range(data.keys) \subseteq OwnNames(Root.properties)

C2_ValuesValid ==
    \A k \in Range(data.keys) \cap OwnNames(Root.properties) :
        SchemaServiceValidate(heap, DataGet(data, k), PropsGet(Root.properties, k),
                              <<k>>).err = OK

\* the part of C2 that holds of the code: success exactly when (a), (b), (c)
C2_ObjectIff ==
    (Done /\ Root.type = "object" /\ data.t = "object") =>
        (result.err = OK <=> (C2_RequiredPresent /\ C2_Closed /\ C2_ValuesValid))

\* C2: success exactly when (a), (b) and (c) hold, and a mapping whose only
\* fault is a key that properties lacks fails with UnknownProperty
C2_ObjectValidation ==
    (Done /\ Root.type = "object" /\ data.t = "object") =>
        /\ result.err = OK <=> (C2_RequiredPresent /\ C2_Closed /\ C2_ValuesValid)
        /\ (C2_RequiredPresent /\ ~C2_Closed /\ C2_ValuesValid)
               => result.err = UnknownProperty

(***************************************************************************)
(* C3.  For a mapping and an Object schema with a non-empty required list  *)
(* of which a name is missing from the mapping's keys, the call fails with *)
(* MissingRequiredField before any key is looked up (the Error is thrown   *)
(* before the loop, no nested validate call is made), whatever else is     *)
(* wrong with the mapping; otherwise the required check does not fail.     *)
(***************************************************************************)
C3_Missing ==
    /\ Root.required # <<>>
    /\ Len(Root.required[1]) # 0
    /\ \E n \in Range(Root.required[1]) : n \notin Range(data.keys)

\* C3: a missing required name is reported first, before any key is looked up
C3_RequiredFirst ==
    /\ (Done /\ Root.type = "object" /\ data.t = "object") =>
          IF C3_Missing
          THEN /\ result.err = MissingRequiredField
               /\ result.at = <<>>
               /\ calls = << <<>> >>
          ELSE ~(result.err = MissingRequiredField /\ result.at = <<>>)
    \* the call that throws MissingRequiredField has not entered its loop
    /\ (/\ pc = "throwing"
        /\ result.err = MissingRequiredField
        /\ Len(stack) = Len(result.at) + 1) => Top.i = 0

\* a mapping with an unknown key and a mismatching value, and a name missing
C3_Witness ==
    /\ Done
    /\ Root.type = "object"
    /\ Root.required = << <<"a", "b">> >>
    /\ OwnNames(Root.properties) = {"a"}
    /\ heap[Root.properties[1].node].type = "object"
    /\ data = Obj(<<"constructor", "a">>, <<Num(5), Num(5)>>)
    /\ result.err = MissingRequiredField

(***************************************************************************)
(* C4.  For an array and an Array schema the elements are validated        *)
(* against items in index order; the call fails with exactly the error of  *)
(* the lowest-index element that does not validate, no later element is    *)
(* validated, and it succeeds exactly when every element validates.  A     *)
(* mapping, string, number or boolean fails an Array schema with           *)
(* TypeMismatch.                                                           *)
(***************************************************************************)
\* validate(data[i - 1], schema.items), on its own
C4_Element(i) ==
    SchemaServiceValidate(heap, data.vals[i], Root.items, <<IndexKey(i - 1)>>)

C4_Failing == {i \in 1..Len(data.vals) : C4_Element(i).err # OK}

\* the position (from 1) of the element a nested call belongs to
C4_ElementOf(path) == CHOOSE i \in 1..Len(data.vals) : IndexKey(i - 1) = path[1]

\* C4: elements in index order, the first failing element's error, none after
C4_ArrayInOrder ==
    (Done /\ Root.type = "array") =>
        IF data.t # "array"
        THEN result.err = TypeMismatch /\ result.at = <<>> /\ calls = << <<>> >>
        ELSE /\ result.err = OK <=> C4_Failing = {}
             \* the calls go through the elements in index order
             /\ \A m, n \in 2..Len(calls) :
                    m <= n => C4_ElementOf(calls[m]) <= C4_ElementOf(calls[n])
             /\ C4_Failing = {} =>
                    {C4_ElementOf(calls[m]) : m \in 2..Len(calls)} = 1..Len(data.vals)
             /\ C4_Failing # {} =>
                    LET first == CHOOSE i \in C4_Failing : \A j \in C4_Failing : i <= j
                    IN /\ result.err = C4_Element(first).err
                       /\ result.at = C4_Element(first).at
                       /\ {C4_ElementOf(calls[m]) : m \in 2..Len(calls)} = 1..first

\* the second element fails, after the first was validated
C4_Witness ==
    /\ Done
    /\ Root = ArraySchema(3)
    /\ heap[3] = NumberSchema
    /\ data = Arr(<<Num(5), Str("red")>>)
    /\ result = [err |-> TypeMismatch, at |-> <<"1">>]
    /\ calls = << <<>>, <<"0">>, <<"1">> >>

(***************************************************************************)
(* C5.  Against a String schema without enum, a Number schema or a Boolean *)
(* schema, a value validates exactly when its runtime type is the schema's *)
(* type, and fails with TypeMismatch otherwise; the schema's type alone    *)
(* selects the check (no coercion, a mapping or an array validates as no   *)
(* primitive).                                                             *)
(***************************************************************************)
C5_Primitives ==
    (Done /\ Root \in {StringSchema(<<>>), NumberSchema, BooleanSchema}) =>
        /\ data.t = Root.type => result.err = OK
        /\ data.t # Root.type => result.err = TypeMismatch
        /\ calls = << <<>> >>

C5_Witness ==
    /\ Done
    /\ Root = StringSchema(<<>>)
    /\ data = Num(5)
    /\ result.err = TypeMismatch

(***************************************************************************)
(* C6.  Against a String schema with an enum list E, a value that is no    *)
(* string fails with TypeMismatch, a string that is no element of E fails  *)
(* with EnumViolation and a string that is an element of E validates; the  *)
(* outcome is the same for every permutation of E, and an empty E rejects  *)
(* every string.                                                           *)
(***************************************************************************)
C6_Enum ==
    (Done /\ Root.type = "string" /\ Root.enum # <<>>) =>
        LET E == Root.enum[1]
        IN /\ data.t # "string" => result.err = TypeMismatch
           /\ (data.t = "string" /\ data.s \notin Range(E)) => result.err = EnumViolation
           /\ (data.t = "string" /\ data.s \in Range(E)) => result.err = OK
           /\ \A f \in Orders(Len(E)) :
                  Outcome([heap EXCEPT ![1] = StringSchema(<<Reorder(E, f)>>)], data).err
                      = result.err

\* the string is the second element of the list
C6_Witness ==
    /\ Done
    /\ Root = StringSchema(<< <<"green", "red">> >>)
    /\ data = Str("red")
    /\ result.err = OK

C8_Unsatisfiable ==
    (Done /\ Root.type = "object" /\ Root.required # <<>>) =>
        \A n \in Range(Root.required[1]) \ OwnNames(Root.properties) :
            /\ result.err # OK
            /\ TypeOf(data) = "object" =>
                  LET dataKeys == ObjectKeys(data)
                  IN IF n \notin Range(dataKeys)
                     THEN result.err = MissingRequiredField /\ result.at = <<>>
                     ELSE \/ result.err = UnknownProperty /\ result.at = <<>>
                          \/ result.err = MissingRequiredField /\ result.at = <<>>
                          \* an error in the value of a key enumerated before n
                          \/ /\ result.at # <<>>
                             /\ \E i, j \in 1..Len(dataKeys) :
                                    /\ i < j
                                    /\ dataKeys[i] = result.at[1]
                                    /\ dataKeys[j] = n

\* the part of C8 that holds of the code: no value satisfies such a schema
C8_NeverValid ==
    (Done /\ Root.type = "object" /\ Root.required # <<>>
        /\ ~(Range(Root.required[1]) \subseteq OwnNames(Root.properties)))
    => result.err # OK

(***************************************************************************)
(* C9.  Validation is fail-fast and single-error at every nesting level:   *)
(* when a nested validate call fails, the root call fails with the same    *)
(* error, unchanged; no enclosing call recovers from it or replaces it; no *)
(* further key, element or sub-schema is checked after it; a failed call   *)
(* surfaces exactly one error.                                             *)
(***************************************************************************)
RECURSIVE ValueAt(_, _)
\* the part of d a path leads to
ValueAt(d, path) ==
    IF path = <<>> THEN d ELSE ValueAt(DataGet(d, path[1]), Tail(path))

RECURSIVE RefAt(_, _, _)
\* the schema the call at a path is given
RefAt(h, ref, path) ==
    IF path = <<>> THEN ref
    ELSE RefAt(h,
               IF Node(h, ref).type = "array" THEN Node(h, ref).items
               ELSE PropsGet(Node(h, ref).properties, path[1]),
               Tail(path))

\* the call made at a path, on its own
C9_CallAt(path) ==
    SchemaServiceValidate(heap, ValueAt(data, path), RefAt(heap, 1, path), path)

C9_Propagated ==
    Done => \A n \in 1..Len(calls) :
                C9_CallAt(calls[n]).err # OK =>
                    /\ result.err = C9_CallAt(calls[n]).err
                    /\ result.at = C9_CallAt(calls[n]).at

\* once an Error is thrown it is the result: no step changes it, none makes a
\* call, none resumes a loop
C9_NothingAfterFault ==
    result.err \in Errors =>
        /\ result' = result
        /\ calls' = calls
        /\ pc' \in {"throwing", "done"}
        /\ Len(stack') <= Len(stack)

\* C9: a nested failure is the root's failure, unchanged, and nothing follows it
C9_FailFast == [](C9_Propagated) /\ [][C9_NothingAfterFault]_vars

\* an error thrown two levels below the root call
C9_Witness ==
    /\ Done
    /\ result.err = TypeMismatch
    /\ Len(result.at) = 2
    /\ Len(calls) = 3

(***************************************************************************)
(* C10.  On an acyclic schema and a finite value a call terminates, with   *)
(* success or exactly one error, its recursion never deeper than the       *)
(* schema tree; and as every nested call descends one level into the value *)
(* too, it also terminates when the schema is shared or cyclic.            *)
(***************************************************************************)
RECURSIVE Size(_)
\* the number of nodes of a value
Size(d) ==
    IF d.t \in {"object", "array"}
    THEN LET sum[i \in 0..Len(d.vals)] == IF i = 0 THEN 0 ELSE sum[i - 1] + Size(d.vals[i])
         IN 1 + sum[Len(d.vals)]
    ELSE 1

Max(a, b) == IF a >= b THEN a ELSE b

RECURSIVE ValueDepth(_)
\* the number of levels of a value
ValueDepth(d) ==
    IF d.t \in {"object", "array"}
    THEN LET deepest[i \in 0..Len(d.vals)] ==
                 IF i = 0 THEN 0 ELSE Max(deepest[i - 1], ValueDepth(d.vals[i]))
         IN 1 + deepest[Len(d.vals)]
    ELSE 1

\* the nodes a schema node refers to
Children(h, ref) ==
    IF h[ref].type = "array" THEN {h[ref].items}
    ELSE IF h[ref].type = "object" THEN {h[ref].properties[i].node :
                                           i \in 1..Len(h[ref].properties)}
    ELSE {}

RECURSIVE DepthUpTo(_, _, _)
\* the length of the longest chain of references from ref, cut at limit
DepthUpTo(h, ref, limit) ==
    IF limit = 0 THEN 0
    ELSE LET below == {DepthUpTo(h, c, limit - 1) : c \in Children(h, ref)}
         IN 1 + (IF below = {} THEN 0 ELSE CHOOSE m \in below : \A x \in below : x <= m)

\* a chain longer than the heap goes through some node twice
Cyclic(h) == DepthUpTo(h, 1, Len(h) + 1) > Len(h)

SchemaDepth(h) == DepthUpTo(h, 1, Len(h))

\* C10: a call ends with success or one error, its calls nested no deeper than
\* the schema tree (nor than the value, whatever the schema)
C10_DepthWithinSchema ==
    /\ Done => result.err \in Errors \cup {OK}
    /\ ~Cyclic(heap) => Len(stack) <= SchemaDepth(heap)
    /\ Len(stack) <= ValueDepth(data)

\* what is left to do: it is a natural number and every step lowers it
Rank ==
    CASE pc = "start" -> 4 * Size(data) + 10
      [] pc = "running" ->
            4 * (Size(data) - Len(calls)) + 2 * Len(stack) + 2
            + Cardinality({n \in 1..Len(stack) : stack[n].i = 0})
      [] pc = "throwing" -> 1 + Len(stack)
      [] OTHER -> 0

\* the part of C10 that holds of the code: whatever the schema, cyclic or
\* not, the calls nest no deeper than the value, a call not yet over can take
\* a step, and every step lowers Rank
C10_Terminates ==
    /\ [](/\ Done => result.err \in Errors \cup {OK}
          /\ Len(stack) <= ValueDepth(data)
          /\ Len(calls) <= Size(data)
          /\ Rank >= 0
          /\ Done \/ ENABLED Next)
    /\ [][Rank' < Rank]_vars

\* every call comes to its end
C10_EventuallyDone == <>Done

====
